---- MODULE Spec2Model ----
(***************************************************************************)
(* Model of snake_runtime: the tournament scheduler of src/main.rs (main,  *)
(* its worker threads, the shared State behind seed_mutex) and the game    *)
(* invoker of src/lib.rs (SnakeRuntime::new, SnakeRuntime::run_game).      *)
(*                                                                         *)
(* u32 values are modelled with UBits bits instead of 32, so that the      *)
(* behaviour at u32::MAX is within reach; start seeds are drawn relative   *)
(* to U32_MAX.  The build profile (overflow checks on: debug, off:         *)
(* release) is an input, because u32 `+` panics in one and wraps in the    *)
(* other.                                                                  *)
(***************************************************************************)
EXTENDS Integers, Sequences, FiniteSets, TLC

\* ------------------------------------------------------------- bounds
\* width in bits of the modelled u32: the values below 2^(UBits - 1) stand
\* for themselves (the seeds and counts of the runs that start at seed 0 stay
\* below it), those from 2^(UBits - 1) on for the top of u32, up to u32::MAX
UBits == 5
\* largest --threads value explored
MaxThreads == 2
\* largest --games value explored
MaxGames == 6
\* largest --games value explored with a pair of MixedPairs
MaxMixedGames == 2
\* claims kept in the history beyond one full cycle of the u32 cursor
MaxExcess == 1

\* ------------------------------------------------------- u32 arithmetic
U32_MAX == 2^UBits - 1

\* a + b on u32 with overflow checks off
WrappingAdd(a, b) == (a + b) % (U32_MAX + 1)

\* does a + b leave u32 (u32::checked_add(a, b).is_none())
CheckedAddIsNone(a, b) == a + b > U32_MAX

\* `x as u32`, `x as u8` for an i32 x
AsU32(x) == x % (U32_MAX + 1)
AsU8(x) == x % 256

\* `x as i32` for a u32 x
AsI32(x) == IF 2 * x > U32_MAX THEN x - (U32_MAX + 1) ELSE x

\* ------------------------------------------------------------- lib.rs
Winner == {"Red", "Blue", "Tie"}

\* the char U+FFFD that from_utf8_lossy substitutes
REPLACEMENT_CHARACTER == 65533

\* String::from_utf8_lossy on bytes that are ASCII or can start no valid
\* UTF-8 sequence (0x80..0xC1, 0xF5..0xFF): each such byte alone becomes
\* U+FFFD.  The result is the sequence of chars of the String.
FromUtf8Lossy(bytes) ==
    [i \in 1..Len(bytes) |->
        IF bytes[i] < 128 THEN bytes[i] ELSE REPLACEMENT_CHARACTER]

\* reason byte sequences as result_get_reason_byte returns them (i32 each):
\* "w", "h", and two that are no valid UTF-8 and exceed a byte
WALL == <<119>>
HEAD == <<104>>
BAD_FF == <<255, 119>>
BAD_FE == <<254, 375>>

\* What the VM holds behind a result handle, and the seeds whose game ends
\* with it (every seed here).
Handle(w, r, t, c) ==
    [winner |-> w, reason |-> r, ticks |-> t, cycles |-> c, seeds |-> 0..U32_MAX]

\* The result h, for the games of the seeds S only.
OnSeeds(h, S) == [h EXCEPT !.seeds = S]

\* The competitor pairs explored: each is the set of results its games can
\* have; a game is a function of the pair and the seed, and where several
\* results of a pair stand for one seed the game may end with any of them.
\* Winner codes: 0 red, 1 blue, 2 tie, 3 red invalid, 4 blue invalid,
\* 5 stands for every other code.
\* The pair whose games all end alike, explored up to MaxGames games:
UniformPairs ==
    { {Handle(1, WALL, 9, 3)} }

\* A pair whose games all land on one entry too, through reason bytes that
\* are not UTF-8 and a tick count that is negative as an i32:
LossyPair == {Handle(2, BAD_FF, 0 - 1, 3), Handle(2, BAD_FE, 0 - 1, 3)}

\* Pairs explored up to MaxMixedGames games: the lossy pair, pairs whose
\* games land on two entries, and one that returns invalid codes:
MixedPairs ==
    { LossyPair,
      {Handle(0, WALL, 9, 3), Handle(1, WALL, 2, 2)},
      {Handle(1, WALL, 9, 3), Handle(1, HEAD, 9, 3)},
      {Handle(0, <<>>, 9, 3), Handle(3, <<>>, 0, 0), Handle(4, WALL, 0, 0),
       Handle(5, <<>>, 0, 0)} }

\* A pair whose game ends with a reason of its own on seed u32::MAX only:
RarePair ==
    { OnSeeds(Handle(1, HEAD, 9, 3), {U32_MAX}),
      OnSeeds(Handle(1, WALL, 9, 3), 0..(U32_MAX - 1)) }

\* The results the game of seed s can have between the competitors m.
GamesOf(m, s) == {h \in m : s \in h.seeds}

\* the bytes of the two competitor files
RED_WASM == <<0, 97, 115, 109, 1>>
BLUE_WASM == <<0, 97, 115, 109>>

\* the offset the VM's allocate_bytes returns for its first call
HeapBase == 64

\* allocate_bytes of the VM on a heap whose free space starts at top
AllocateBytes(top, size) == [offset |-> top, top |-> top + size]

NoRuntime == [red_ptr |-> 0 - 1]

\* SnakeRuntime::new: the exports called, the linear memory written and the
\* fields of the SnakeRuntime.
New(red_wasm, blue_wasm) ==
    LET red == AllocateBytes(HeapBase, AsI32(Len(red_wasm)))
        blue == AllocateBytes(red.top, AsI32(Len(blue_wasm)))
    IN  [calls |-> <<"allocate_bytes", "allocate_bytes", "write", "write">>,
         memory |-> {<<red.offset, red_wasm>>, <<blue.offset, blue_wasm>>},
         runtime |-> [red_ptr |-> red.offset,
                      red_len |-> AsU32(Len(red_wasm)),
                      blue_ptr |-> blue.offset,
                      blue_len |-> AsU32(Len(blue_wasm))]]

\* InvokeArgs with the blue buffer passed for both competitors.
InvokeArgsBlueTwice(rt, s) ==
    <<rt.blue_ptr, AsI32(rt.blue_len), rt.blue_ptr, AsI32(rt.blue_len), AsI32(s)>>

\* The arguments run_game passes to the run_game export.
InvokeArgs(rt, s) ==
    <<rt.red_ptr, AsI32(rt.red_len), rt.blue_ptr, AsI32(rt.blue_len), AsI32(s)>>

NoHandle == [winner |-> 0 - 1]
NoResult == [winner |-> "None"]

PanicMessage(winner_value) ==
    CASE winner_value = 3 -> "RED WASM failed validation"
      [] winner_value = 4 -> "BLUE WASM failed validation"
      [] OTHER -> "unreachable"

WinnerOf(winner_value) ==
    CASE winner_value = 0 -> "Red"
      [] winner_value = 1 -> "Blue"
      [] winner_value = 2 -> "Tie"

\* The calls run_game makes on the handle before it matches on the winner
\* code: reason length, one call per reason byte, winner.
ReadsBeforeMatch(h) ==
    <<"result_get_reason_len">>
    \o [i \in 1..Len(h.reason) |-> "result_get_reason_byte"]
    \o <<"result_get_winner">>

\* ReadsAfterMatch with the handle dropped before its last reads.
ReadsAfterEarlyDrop == <<"result_drop", "result_get_ticks", "result_get_cycles">>

\* The calls run_game makes after the match, when the match did not panic.
ReadsAfterMatch == <<"result_get_ticks", "result_get_cycles", "result_drop">>

\* Does the match on the winner code panic.
MatchPanics(winner_value) == winner_value \notin {0, 1, 2}

\* run_game with an invalid competitor counted as a win of the other side
\* instead of a panic.
RunGameInvalidAsWin(h) ==
    LET reason == FromUtf8Lossy([i \in 1..Len(h.reason) |-> AsU8(h.reason[i])])
    IN  IF h.winner \notin {0, 1, 2, 3, 4}
        THEN [panic |-> PanicMessage(h.winner),
              calls |-> ReadsBeforeMatch(h),
              result |-> NoResult]
        ELSE [panic |-> "",
              calls |-> ReadsBeforeMatch(h) \o ReadsAfterMatch,
              result |-> [winner |-> CASE h.winner = 3 -> "Blue"
                                       [] h.winner = 4 -> "Red"
                                       [] OTHER -> WinnerOf(h.winner),
                          tick |-> AsU32(h.ticks),
                          cycle |-> AsU32(h.cycles),
                          lose_reason |-> reason]]

\* SnakeRuntime::run_game from the return of the run_game export on: the
\* calls made on handle h, and either the GameResult or the panic message.
RunGame(h) ==
    LET reason_bytes == [i \in 1..Len(h.reason) |-> AsU8(h.reason[i])]
        reason == FromUtf8Lossy(reason_bytes)
    IN  IF MatchPanics(h.winner)
        THEN [panic |-> PanicMessage(h.winner),
              calls |-> ReadsBeforeMatch(h),
              result |-> NoResult]
        ELSE [panic |-> "",
              calls |-> ReadsBeforeMatch(h) \o ReadsAfterMatch,
              result |-> [winner |-> WinnerOf(h.winner),
                          tick |-> AsU32(h.ticks),
                          cycle |-> AsU32(h.cycles),
                          lose_reason |-> reason]]

\* ------------------------------------------------------------- main.rs
Workers == 1..MaxThreads
None == 0

VARIABLES
    args,             \* [seed, games, threads]: the parsed command line
    overflow_checks,  \* TRUE: u32 overflow panics; FALSE: it wraps
    modules,          \* the results the competitor pair's games can have
    main_pc,          \* position of the main thread
    warned,           \* main printed "Seed is too high ..."
    spawned,          \* threads pushed to `threads` so far
    joined,           \* threads of `threads` joined so far
    state,            \* the State behind seed_mutex
    lock_owner,       \* worker holding seed_mutex, or None
    poisoned,         \* seed_mutex is poisoned
    pc,               \* position of each worker thread
    seed,             \* each worker's local `seed`
    runtime,          \* each worker's local `runtime`
    memory,           \* linear memory of each runtime: the regions written
    allocs,           \* allocate_bytes calls made on each worker's runtime
    writes,           \* memory writes made on each worker's runtime
    invoke,           \* arguments of each worker's current run_game call
    handle,           \* VM side of each worker's runtime: the current result
    live,             \* handles of each worker's runtime not yet dropped
    calls,            \* exports called for each worker's current game
    result,           \* each worker's local `result`
    winner_value,     \* winner code read in each worker's current game
    panic_msg,        \* message of each worker's panic, "" when none
    claimed,          \* history: seeds returned by the claim block, in order
    num_recorded,     \* history: record blocks completed
    recorded          \* history: how often each seed was recorded

vars == <<args, overflow_checks, modules, main_pc, warned, spawned, joined,
          state, lock_owner, poisoned, pc, seed, runtime, memory, allocs,
          writes, invoke, handle, live, calls, result, winner_value,
          panic_msg, claimed, num_recorded, recorded>>

main_vars == <<main_pc, warned, spawned, joined>>
input_vars == <<args, overflow_checks, modules>>
vm_vars == <<runtime, memory, allocs, writes, invoke, handle, live, calls,
             result, winner_value>>
game_vars == <<invoke, handle, live, calls, result, winner_value>>
setup_vars == <<runtime, memory>>

EmptyMap == [x \in {} |-> 0]

\* start seeds explored for a game count g: 0, and those that put
\* seed + games at u32::MAX and one above it
StartSeeds(g) == {0, U32_MAX - g, U32_MAX - g + 1} \cap 0..U32_MAX

\* the command lines explored with at most n games
ArgsUpTo(n) ==
    {a \in [seed : 0..U32_MAX, games : 0..n, threads : 1..MaxThreads] :
        a.seed \in StartSeeds(a.games)}

\* the build profiles explored for command line a: both where an addition
\* of the run can overflow (seed + games + 1 leaves u32), else the one
\* without overflow checks, the other behaving the same
Profiles(a) ==
    IF CheckedAddIsNone(a.seed + a.games, 1) THEN BOOLEAN ELSE {FALSE}

\* The state main starts in, once the command line and the files are read.
Boot ==
    /\ main_pc = "check"
    /\ warned = FALSE
    /\ spawned = 0
    /\ joined = 0
    /\ state = [seed |-> args.seed, wins |-> EmptyMap, lose_reasons |-> EmptyMap]
    /\ lock_owner = None
    /\ poisoned = FALSE
    /\ pc = [w \in Workers |-> "unspawned"]
    /\ seed = [w \in Workers |-> 0]
    /\ runtime = [w \in Workers |-> NoRuntime]
    /\ memory = [w \in Workers |-> {}]
    /\ allocs = [w \in Workers |-> 0]
    /\ writes = [w \in Workers |-> 0]
    /\ invoke = [w \in Workers |-> <<>>]
    /\ handle = [w \in Workers |-> NoHandle]
    /\ live = [w \in Workers |-> 0]
    /\ calls = [w \in Workers |-> <<>>]
    /\ result = [w \in Workers |-> NoResult]
    /\ winner_value = [w \in Workers |-> 0 - 1]
    /\ panic_msg = [w \in Workers |-> ""]
    /\ claimed = <<>>
    /\ num_recorded = 0
    /\ recorded = EmptyMap

\* Built without overflow checks a run with seed + games == u32::MAX never
\* ends: its cursor wraps and goes round.
RunsAway(a, checks) == ~checks /\ a.seed + a.games = U32_MAX

\* The runs that never end are explored round the whole cycle of the cursor
\* and beyond, with one worker thread and with the pairs whose game is one
\* function of the seed.
Init ==
    /\ \/ modules \in UniformPairs /\ args \in ArgsUpTo(MaxGames)
       \/ modules \in MixedPairs /\ args \in ArgsUpTo(MaxMixedGames)
       \/ modules = RarePair /\ args \in ArgsUpTo(MaxMixedGames)
    /\ overflow_checks \in Profiles(args)
    /\ RunsAway(args, overflow_checks)
           => modules \notin MixedPairs /\ args.threads = 1
    /\ Boot

\* The process is running: a panic of the main thread ends it.
Alive == main_pc # "panicked"

\* main: the overflow check, which prints and goes on.
MainCheck ==
    /\ main_pc = "check"
    /\ warned' = CheckedAddIsNone(args.games, args.seed)
    /\ main_pc' = "spawn"
    /\ UNCHANGED <<input_vars, spawned, joined, state, lock_owner, poisoned,
                   pc, seed, vm_vars, panic_msg, claimed, num_recorded, recorded>>

\* main: one iteration of the spawn loop.
MainSpawn ==
    /\ main_pc = "spawn"
    /\ spawned < args.threads
    /\ spawned' = spawned + 1
    /\ pc' = [pc EXCEPT ![spawned + 1] = "new"]
    /\ main_pc' = IF spawned + 1 = args.threads THEN "join" ELSE "spawn"
    /\ UNCHANGED <<input_vars, warned, joined, state, lock_owner, poisoned,
                   seed, vm_vars, panic_msg, claimed, num_recorded, recorded>>

\* main: thread_handle.join().unwrap() on the next thread.
MainJoin ==
    /\ main_pc = "join"
    /\ joined < args.threads
    /\ pc[joined + 1] \in {"returned", "panicked"}
    /\ IF pc[joined + 1] = "panicked"
       THEN /\ main_pc' = "panicked"
            /\ joined' = joined
       ELSE /\ joined' = joined + 1
            /\ main_pc' = IF joined + 1 = args.threads THEN "final" ELSE "join"
    /\ UNCHANGED <<input_vars, warned, spawned, state, lock_owner, poisoned,
                   pc, seed, vm_vars, panic_msg, claimed, num_recorded, recorded>>

WinsOf(wins, winner) == IF winner \in DOMAIN wins THEN wins[winner] ELSE 0

\* red_wins + ties + blue_wins as main computes it; -1 when the sum panics.
WinsTotal(wins) ==
    LET red_wins == WinsOf(wins, "Red")
        ties == WinsOf(wins, "Tie")
        blue_wins == WinsOf(wins, "Blue")
    IN  IF overflow_checks /\ (CheckedAddIsNone(red_wins, ties)
                               \/ CheckedAddIsNone(red_wins + ties, blue_wins))
        THEN 0 - 1
        ELSE WrappingAdd(WrappingAdd(red_wins, ties), blue_wins)

\* main: the final lock().unwrap() and the assert_eq.
MainFinal ==
    /\ main_pc = "final"
    /\ lock_owner = None
    /\ main_pc' = IF ~poisoned /\ WinsTotal(state.wins) = args.games
                  THEN "done" ELSE "panicked"
    /\ UNCHANGED <<input_vars, warned, spawned, joined, state, lock_owner,
                   poisoned, pc, seed, vm_vars, panic_msg, claimed, num_recorded, recorded>>

\* The calls of op among the calls cs.
Count(cs, op) == Cardinality({i \in 1..Len(cs) : cs[i] = op})

\* worker: SnakeRuntime::new.
WorkerNew(w) ==
    /\ Alive
    /\ pc[w] = "new"
    /\ LET n == New(RED_WASM, BLUE_WASM)
       IN  /\ runtime' = [runtime EXCEPT ![w] = n.runtime]
           /\ memory' = [memory EXCEPT ![w] = n.memory]
           /\ allocs' = [allocs EXCEPT ![w] = @ + Count(n.calls, "allocate_bytes")]
           /\ writes' = [writes EXCEPT ![w] = @ + Count(n.calls, "write")]
    /\ pc' = [pc EXCEPT ![w] = "claim_lock"]
    /\ UNCHANGED <<input_vars, main_vars, state, lock_owner, poisoned, seed,
                   game_vars, panic_msg, claimed, num_recorded, recorded>>

\* A lock that excludes nobody.
MutexAlwaysFree == TRUE

\* seed_mutex can be taken.
MutexFree == lock_owner = None

\* worker: seed_mutex.lock().unwrap() of the claim block.
LockClaim(w) ==
    /\ Alive
    /\ pc[w] = "claim_lock"
    /\ MutexFree
    /\ IF poisoned
       THEN /\ pc' = [pc EXCEPT ![w] = "panicked"]
            /\ panic_msg' = [panic_msg EXCEPT ![w] = "PoisonError"]
            /\ UNCHANGED lock_owner
       ELSE /\ pc' = [pc EXCEPT ![w] = "claim_cs"]
            /\ lock_owner' = w
            /\ UNCHANGED panic_msg
    /\ UNCHANGED <<input_vars, main_vars, state, poisoned, seed, vm_vars,
                   claimed, num_recorded, recorded>>

\* The test `seed + 1 > (args.games + args.seed)` with overflow wrapping.
Exhausted(s) == WrappingAdd(s, 1) > WrappingAdd(args.games, args.seed)

\* Does the claim block panic on an overflowing u32 addition.
ClaimOverflows(s) ==
    overflow_checks /\ (CheckedAddIsNone(s, 1)
                        \/ CheckedAddIsNone(args.games, args.seed))

\* The history variables (claimed, num_recorded, recorded) observe the run
\* while fewer than MaxHistory seeds were claimed: one full cycle of the
\* cursor, the games asked for and MaxExcess more.  The run itself goes on.
MaxHistory == U32_MAX + 1 + MaxGames + MaxExcess
HistoryOpen == Len(claimed) < MaxHistory

\* The claim block's guard outliving the block.
GuardKeptAfterClaim(w) == w

\* Owner of seed_mutex once w leaves the claim block with a seed: the guard
\* `state` is dropped at the end of the block.
AfterClaimBlock(w) == None

\* worker: the body of the claim block, to the release of the lock.
ClaimSeed(w) ==
    /\ Alive
    /\ pc[w] = "claim_cs"
    /\ IF ClaimOverflows(state.seed)
       THEN /\ pc' = [pc EXCEPT ![w] = "panicked"]
            /\ panic_msg' = [panic_msg EXCEPT ![w] = "attempt to add with overflow"]
            /\ poisoned' = TRUE
            /\ lock_owner' = None
            /\ UNCHANGED <<state, seed, claimed>>
       ELSE IF Exhausted(state.seed)
       THEN /\ pc' = [pc EXCEPT ![w] = "returned"]
            /\ lock_owner' = None
            /\ UNCHANGED <<state, seed, claimed, panic_msg, poisoned>>
       ELSE /\ state' = [state EXCEPT !.seed = WrappingAdd(state.seed, 1)]
            /\ seed' = [seed EXCEPT ![w] = state.seed]
            /\ claimed' = IF HistoryOpen THEN Append(claimed, state.seed)
                          ELSE claimed
            /\ pc' = [pc EXCEPT ![w] = "run_game"]
            /\ lock_owner' = AfterClaimBlock(w)
            /\ UNCHANGED <<panic_msg, poisoned>>
    /\ UNCHANGED <<input_vars, main_vars, vm_vars, num_recorded, recorded>>

\* Handles left undropped after the calls cs on a runtime that had n.
LiveAfter(n, cs) ==
    n + Cardinality({i \in 1..Len(cs) : cs[i] = "run_game"})
      - Cardinality({i \in 1..Len(cs) : cs[i] = "result_drop"})

\* The VM's result after the calls cs: result_drop frees it.
HandleAfter(h, cs) ==
    IF \E i \in 1..Len(cs) : cs[i] = "result_drop" THEN NoHandle ELSE h

\* worker: runtime.run_game(seed): the run_game export is called, the game
\* runs in the VM and returns a handle, and run_game reads it to its end.
PlayGame(w) ==
    /\ Alive
    /\ pc[w] = "run_game"
    /\ \E h \in GamesOf(modules, seed[w]) :
         LET r == RunGame(h)
             cs == <<"run_game">> \o r.calls
         IN  /\ invoke' = [invoke EXCEPT ![w] = InvokeArgs(runtime[w], seed[w])]
             /\ allocs' = [allocs EXCEPT ![w] = @ + Count(cs, "allocate_bytes")]
             /\ writes' = [writes EXCEPT ![w] = @ + Count(cs, "write")]
             /\ handle' = [handle EXCEPT ![w] = HandleAfter(h, cs)]
             /\ calls' = [calls EXCEPT ![w] = cs]
             /\ live' = [live EXCEPT ![w] = LiveAfter(@, cs)]
             /\ result' = [result EXCEPT ![w] = r.result]
             /\ winner_value' = [winner_value EXCEPT ![w] = h.winner]
             /\ panic_msg' = [panic_msg EXCEPT ![w] = r.panic]
             /\ pc' = [pc EXCEPT ![w] = IF r.panic = "" THEN "record_lock"
                                        ELSE "panicked"]
    /\ UNCHANGED <<input_vars, main_vars, state, lock_owner, poisoned, seed,
                   setup_vars, claimed, num_recorded, recorded>>

\* worker: seed_mutex.lock().unwrap() of the record block.
LockRecord(w) ==
    /\ Alive
    /\ pc[w] = "record_lock"
    /\ MutexFree
    /\ IF poisoned
       THEN /\ pc' = [pc EXCEPT ![w] = "panicked"]
            /\ panic_msg' = [panic_msg EXCEPT ![w] = "PoisonError"]
            /\ UNCHANGED lock_owner
       ELSE /\ pc' = [pc EXCEPT ![w] = "record_cs"]
            /\ lock_owner' = w
            /\ UNCHANGED panic_msg
    /\ UNCHANGED <<input_vars, main_vars, state, poisoned, seed, vm_vars,
                   claimed, num_recorded, recorded>>

\* PushExample keeping the latest five seeds instead of the first five.
PushExampleKeepLatest(examples, s) ==
    IF Len(examples) < 5 THEN Append(examples, s)
    ELSE Append(Tail(examples), s)

\* `if examples.1.len() < 5 { examples.1.push(seed) }`
PushExample(examples, s) ==
    IF Len(examples) < 5 THEN Append(examples, s) ELSE examples

\* The entry of (winner, reason) in lose_reasons, (0, []) when absent.
ExamplesOf(lose_reasons, winner, reason) ==
    IF winner \in DOMAIN lose_reasons /\ reason \in DOMAIN lose_reasons[winner]
    THEN lose_reasons[winner][reason]
    ELSE <<0, <<>>>>

\* Record replacing the winner's reasons by the one just seen, instead of
\* adding to them.
RecordForgetsOtherReasons(st, res, s) ==
    LET examples == ExamplesOf(st.lose_reasons, res.winner, res.lose_reason)
        updated == <<WrappingAdd(examples[1], 1), PushExample(examples[2], s)>>
    IN  [st EXCEPT
           !.wins = (res.winner :> WrappingAdd(WinsOf(st.wins, res.winner), 1))
                    @@ st.wins,
           !.lose_reasons = (res.winner :> (res.lose_reason :> updated))
                            @@ st.lose_reasons]

\* The record block on State st for GameResult res and seed s.
Record(st, res, s) ==
    LET by_winner == IF res.winner \in DOMAIN st.lose_reasons
                     THEN st.lose_reasons[res.winner] ELSE EmptyMap
        examples == ExamplesOf(st.lose_reasons, res.winner, res.lose_reason)
        updated == <<WrappingAdd(examples[1], 1), PushExample(examples[2], s)>>
    IN  [st EXCEPT
           !.wins = (res.winner :> WrappingAdd(WinsOf(st.wins, res.winner), 1))
                    @@ st.wins,
           !.lose_reasons = (res.winner :> ((res.lose_reason :> updated)
                                            @@ by_winner))
                            @@ st.lose_reasons]

\* Does the record block panic on an overflowing u32 addition.
RecordOverflows(st, res) ==
    overflow_checks /\ CheckedAddIsNone(WinsOf(st.wins, res.winner), 1)

\* The record block's guard outliving the block.
GuardKeptAfterRecord(w) == w

\* Owner of seed_mutex once w leaves the record block: the guard `state` is
\* dropped at the end of the block.
AfterRecordBlock(w) == None

\* The bag b with one more x.
BagAdd(b, x) == (x :> (IF x \in DOMAIN b THEN b[x] + 1 ELSE 1)) @@ b

\* worker: the body of the record block, to the release of the lock.
RecordResult(w) ==
    /\ Alive
    /\ pc[w] = "record_cs"
    /\ IF RecordOverflows(state, result[w])
       THEN /\ pc' = [pc EXCEPT ![w] = "panicked"]
            /\ panic_msg' = [panic_msg EXCEPT ![w] = "attempt to add with overflow"]
            /\ poisoned' = TRUE
            /\ lock_owner' = None
            /\ UNCHANGED <<state, num_recorded, recorded>>
       ELSE /\ state' = Record(state, result[w], seed[w])
            /\ num_recorded' = IF HistoryOpen THEN num_recorded + 1
                               ELSE num_recorded
            /\ recorded' = IF HistoryOpen THEN BagAdd(recorded, seed[w])
                           ELSE recorded
            /\ pc' = [pc EXCEPT ![w] = "claim_lock"]
            /\ lock_owner' = AfterRecordBlock(w)
            /\ UNCHANGED <<panic_msg, poisoned>>
    /\ seed' = [seed EXCEPT ![w] = 0]
    /\ result' = [result EXCEPT ![w] = NoResult]
    /\ calls' = [calls EXCEPT ![w] = <<>>]
    /\ invoke' = [invoke EXCEPT ![w] = <<>>]
    /\ winner_value' = [winner_value EXCEPT ![w] = 0 - 1]
    /\ UNCHANGED <<input_vars, main_vars, setup_vars, allocs, writes, handle,
                   live, claimed>>

Next ==
    \/ MainCheck
    \/ MainSpawn
    \/ MainJoin
    \/ MainFinal
    \/ \E w \in Workers : WorkerNew(w)
    \/ \E w \in Workers : LockClaim(w)
    \/ \E w \in Workers : ClaimSeed(w)
    \/ \E w \in Workers : PlayGame(w)
    \/ \E w \in Workers : LockRecord(w)
    \/ \E w \in Workers : RecordResult(w)

Spec == Init /\ [][Next]_vars

\* `examples.sort()` of print_lose_reasons_table
RECURSIVE Insert(_, _)
Insert(sorted, x) ==
    IF sorted = <<>> \/ x >= sorted[Len(sorted)]
    THEN Append(sorted, x)
    ELSE Append(Insert(SubSeq(sorted, 1, Len(sorted) - 1), x), sorted[Len(sorted)])

RECURSIVE Sort(_)
Sort(examples) ==
    IF examples = <<>> THEN <<>>
    ELSE Insert(Sort(SubSeq(examples, 1, Len(examples) - 1)), examples[Len(examples)])


\* ------------------------------------------------------------ properties
\* seed + games is a u32
Representable == ~CheckedAddIsNone(args.games, args.seed)

\* every game of the competitor pair returns a Red/Blue/Tie code
AllPlayable == \A h \in modules : h.winner \in {0, 1, 2}

\* main's join loop is over: every worker was joined
AllJoined == main_pc \in {"final", "done"} \/ (main_pc = "panicked" /\ joined = args.threads)

\* main's assert_eq failed
AssertFailed == main_pc = "panicked" /\ joined = args.threads /\ ~poisoned

\* the seeds [start_seed, start_seed + G), as integers
SeedRange == {args.seed + i : i \in 0..(args.games - 1)}

ClaimedSet == {claimed[i] : i \in 1..Len(claimed)}

InvalidCompetitorPanics == {"RED WASM failed validation", "BLUE WASM failed validation"}

\* the (winner, reason) entries of the histogram
Entries ==
    {<<w, r>> \in Winner \X UNION {DOMAIN state.lose_reasons[w] : w \in DOMAIN state.lose_reasons} :
        w \in DOMAIN state.lose_reasons /\ r \in DOMAIN state.lose_reasons[w]}

StrictlyIncreasing(xs) == \A i \in 1..(Len(xs) - 1) : xs[i] < xs[i + 1]

FieldReads == {"result_get_winner", "result_get_ticks", "result_get_cycles",
               "result_get_reason_len", "result_get_reason_byte"}

\* one invoke, then only field reads, then one drop as the last call
InvokeReadsDrop(cs) ==
    /\ Len(cs) >= 2
    /\ cs[1] = "run_game"
    /\ cs[Len(cs)] = "result_drop"
    /\ \A i \in 2..(Len(cs) - 1) : cs[i] \in FieldReads

InClaim(w) == pc[w] = "claim_cs"
InRecord(w) == pc[w] = "record_cs"

\* C1: with seed + games a u32 and every game returning Red/Blue/Tie, never
\* more than G games are run, and once all workers are joined exactly G games
\* have been run and recorded, the wins sum to G and the assert_eq holds.
C1_ExactlyGGames ==
    (Representable /\ AllPlayable) =>
        /\ Len(claimed) <= args.games
        /\ ~AssertFailed
        /\ AllJoined => /\ Len(claimed) = args.games
                        /\ num_recorded = args.games
                        /\ WinsTotal(state.wins) = args.games

\* seed + games stays below u32::MAX: the cursor never reaches u32::MAX
BelowMax == args.seed + args.games < U32_MAX

\* C1 holds on the runs whose cursor never reaches u32::MAX.
C1_BelowMax == BelowMax => C1_ExactlyGGames

\* C2: the seeds claimed are those of [start_seed, start_seed + G), each once:
\* none outside, none twice, and all of them once every worker has returned.
C2_SeedsPartition ==
    /\ ClaimedSet \subseteq SeedRange
    /\ \A i, j \in 1..Len(claimed) : i # j => claimed[i] # claimed[j]
    /\ (spawned = args.threads /\ \A w \in 1..args.threads : pc[w] = "returned")
           => ClaimedSet = SeedRange

\* C2 holds on the runs whose cursor never reaches u32::MAX.
C2_BelowMax == BelowMax => C2_SeedsPartition

\* C3: every example list has at most 5 seeds and, sorted, is strictly
\* increasing (no seed twice).
C3_ExamplesBounded ==
    \A e \in Entries :
        LET examples == state.lose_reasons[e[1]][e[2]][2]
        IN  Len(examples) <= 5 /\ StrictlyIncreasing(Sort(examples))

\* C3 holds on the runs whose cursor never reaches u32::MAX.
C3_BelowMax == BelowMax => C3_ExamplesBounded

\* C4: a game with winner code 0, 1 or 2 makes exactly one invoke, then only
\* field reads, then one drop as its last call, and no game starts on a
\* runtime that still has an undropped handle.
C4_CallSequence ==
    \A w \in Workers :
        /\ (calls[w] # <<>> /\ winner_value[w] \in {0, 1, 2})
               => InvokeReadsDrop(calls[w]) /\ live[w] = 0
        /\ pc[w] = "run_game" => live[w] = 0

\* C4 witness: a worker back from its second game or a later one, with a
\* reason of two bytes read.
C4_Witness ==
    \E w \in Workers :
        /\ pc[w] = "record_cs"
        /\ num_recorded >= 1
        /\ Len(calls[w]) = 8

\* C5: every handle the run export produced is dropped exactly once after
\* its reads, also when its winner code is 3 or 4.
C5_AlwaysReleased ==
    \A w \in Workers :
        calls[w] # <<>> => InvokeReadsDrop(calls[w]) /\ live[w] = 0

\* C6: on winner code 3 or 4 run_game returns an error value to the worker;
\* the worker thread does not end in a panic.
C6_TypedError ==
    \A w \in Workers :
        winner_value[w] \in {3, 4} => pc[w] # "panicked" /\ panic_msg[w] = ""

\* the aggregate (wins, lose_reasons) changes in this step
RecordedInStep ==
    \/ state'.wins # state.wins
    \/ state'.lose_reasons # state.lose_reasons
    \/ num_recorded' # num_recorded

\* C7: the aggregate changes only in the record block of a worker whose game
\* returned winner code 0, 1 or 2; a game with code 3 or 4 is never recorded.
C7_InvalidNeverRecorded ==
    [][RecordedInStep =>
          \E w \in Workers : /\ InRecord(w)
                             /\ pc'[w] = "claim_lock"
                             /\ winner_value[w] \in {0, 1, 2}]_vars

\* C7 witness: a game ended with code 3 or 4 while games are on record.
C7_Witness ==
    \E w \in Workers : winner_value[w] \in {3, 4} /\ num_recorded >= 1

\* C8: once a worker's game ended in an invalid competitor, no seed is
\* claimed and no result is recorded any more.
C8_WindDown ==
    [][(\E w \in Workers : panic_msg[w] \in InvalidCompetitorPanics)
          => claimed' = claimed /\ num_recorded' = num_recorded]_vars

\* C9: when seed + games overflows u32 no worker is spawned and no seed is
\* claimed.
C9_OverflowRejected ==
    ~Representable => spawned = 0 /\ claimed = <<>>

\* C10: the cursor and the aggregate have independent locks: a worker waiting
\* to claim is held up only by a worker inside the claim block, and a worker
\* waiting to record only by a worker inside the record block.
C10_IndependentLocks ==
    \A w \in Workers :
        /\ (Alive /\ pc[w] = "claim_lock" /\ \A v \in Workers : ~InClaim(v))
               => ENABLED LockClaim(w)
        /\ (Alive /\ pc[w] = "record_lock" /\ \A v \in Workers : ~InRecord(v))
               => ENABLED LockRecord(w)

\* C10 amended: the cursor and the aggregate are behind the one seed_mutex:
\* the claim block and the record block are separate critical sections of
\* it, and at most one worker is inside either of them at a time.
C10_OneMutex ==
    \A w \in Workers :
        /\ (InClaim(w) \/ InRecord(w)) <=> lock_owner = w
        /\ \A v \in Workers :
               (v # w /\ (InClaim(w) \/ InRecord(w))) => ~(InClaim(v) \/ InRecord(v))

\* C10 witness: a worker waits to claim while another is inside the record
\* block.
C10_Witness ==
    \E w, v \in Workers : InRecord(w) /\ pc[v] = "claim_lock"

\* ---------------------------------------------------------------------------
\* Locking around the game

\* w is between its claim block and its record block: run_game is running.
InGame(w) == pc[w] = "run_game"

\* w waits for seed_mutex, in front of the claim block or of the record block.
AtLock(w) == pc[w] \in {"claim_lock", "record_lock"}

\* w's lock() call returns.
TakeLock(w) == LockClaim(w) \/ LockRecord(w)

\* C11: a worker whose game is in progress holds no lock, so that (however
\* long the game takes) any other worker waiting for the lock can take it as
\* soon as no third worker is inside a critical section, to claim or to record.
C11_NoLockInGame ==
    \A w \in Workers :
        InGame(w) =>
            /\ lock_owner # w
            /\ \A v \in Workers \ {w} :
                   (/\ Alive
                    /\ AtLock(v)
                    /\ \A u \in Workers \ {w} : ~InClaim(u) /\ ~InRecord(u))
                   => ENABLED TakeLock(v)

\* One worker is inside the record block, a result already recorded, while
\* another worker's game is in progress.
C11_Witness ==
    \E w, v \in Workers :
        /\ w # v
        /\ InGame(w)
        /\ InRecord(v)
        /\ num_recorded > 0

\* One step of worker w other than the return of its game.
StepOutsideGame(w) ==
    \/ WorkerNew(w)
    \/ LockClaim(w)
    \/ ClaimSeed(w)
    \/ LockRecord(w)
    \/ RecordResult(w)

\* w has been spawned and has neither returned nor panicked.
Running(w) == pc[w] \notin {"unspawned", "returned", "panicked"}

\* C12: no worker calls lock() while it holds the lock, and there is no
\* deadlock: while the process is alive and some worker has neither terminated
\* nor is inside a game, some worker can take a step that is not the return of
\* a game; and main's final lock() succeeds.
C12_NoDeadlock ==
    /\ \A w \in Workers : AtLock(w) => lock_owner # w
    /\ (/\ Alive
        /\ \E w \in Workers : Running(w) /\ ~InGame(w))
       => \E v \in Workers : ENABLED StepOutsideGame(v)
    /\ main_pc = "final" => ENABLED MainFinal

\* A worker waits at lock() while another worker is inside the record block.
C12_Witness ==
    \E w, v \in Workers :
        /\ w # v
        /\ pc[w] = "claim_lock"
        /\ InRecord(v)
        /\ num_recorded > 0

\* ---------------------------------------------------------------------------
\* Ten games from seed 0 between competitors whose games all end alike

\* --seed 0 --games 10, any thread count, every game with one winner and one
\* reason string.
Init10 ==
    /\ modules \in UniformPairs \cup {LossyPair}
    /\ args \in [seed : {0}, games : {10}, threads : 1..MaxThreads]
    /\ overflow_checks \in Profiles(args)
    /\ Boot

Spec10 == Init10 /\ [][Next]_vars

\* The winner of every game of the run.
TheWinner == CHOOSE x \in Winner : \E h \in modules : WinnerOf(h.winner) = x

\* The reason string of every game of the run.
TheReason == CHOOSE r \in {FromUtf8Lossy(h.reason) : h \in modules} : TRUE

\* The seeds of a list, as a set.
SeedsOf(xs) == {xs[i] : i \in 1..Len(xs)}

\* C13: the run of ten games from seed 0 ends with wins = {side: 10} and one
\* entry of count 10 whose example seeds are the five lowest, 0..4.
C13_FiveLowestSeeds ==
    main_pc = "done" =>
        /\ state.wins = (TheWinner :> 10)
        /\ Entries = {<<TheWinner, TheReason>>}
        /\ ExamplesOf(state.lose_reasons, TheWinner, TheReason)[1] = 10
        /\ SeedsOf(ExamplesOf(state.lose_reasons, TheWinner, TheReason)[2]) = 0..4

\* C13 (amended): the run ends with wins = {side: 10} and one entry of count
\* 10 whose examples are the seeds of the first five results recorded: five
\* different seeds, each below 4 + N, which are 0..4 with one thread.
C13_FirstFiveRecorded ==
    main_pc = "done" =>
        LET examples == ExamplesOf(state.lose_reasons, TheWinner, TheReason)
        IN  /\ state.wins = (TheWinner :> 10)
            /\ Entries = {<<TheWinner, TheReason>>}
            /\ examples[1] = 10
            /\ Len(examples[2]) = 5
            /\ Cardinality(SeedsOf(examples[2])) = 5
            /\ \A s \in SeedsOf(examples[2]) : s < 4 + args.threads
            /\ args.threads = 1 => examples[2] = <<0, 1, 2, 3, 4>>

\* A run of two or more threads ended with an example seed above 4.
C13_Witness ==
    /\ main_pc = "done"
    /\ args.threads > 1
    /\ ExamplesOf(state.lose_reasons, TheWinner, TheReason)[1] = 10
    /\ \E s \in SeedsOf(ExamplesOf(state.lose_reasons, TheWinner, TheReason)[2]) : s > 4

\* ---------------------------------------------------------------------------
\* Termination under fair scheduling

\* The steps of the main thread and of worker thread w.
Main == MainCheck \/ MainSpawn \/ MainJoin \/ MainFinal
Worker(w) == StepOutsideGame(w) \/ PlayGame(w)

\* Every thread that can run is scheduled, and every game returns.
Fairness == WF_vars(Main) /\ \A w \in Workers : WF_vars(Worker(w))

FairSpec == Init /\ [][Next]_vars /\ Fairness

\* Every worker the run was asked for has left its loop by `return`.
AllReturned == \A w \in 1..args.threads : pc[w] = "returned"

\* main holds or has read the final state only with every worker terminated.
FinalReadAfterWorkers == main_pc \in {"final", "done"} => AllReturned

\* C14: under fair scheduling, with seed + games a u32 and every game
\* returning an outcome, every worker eventually finds the range exhausted and
\* returns, main eventually reads the aggregate, and that read comes only
\* after every worker has terminated.
C14_FairTermination ==
    (Representable /\ AllPlayable) =>
        /\ <>(main_pc = "done" /\ AllReturned)
        /\ []FinalReadAfterWorkers

\* C14 holds on the runs whose cursor never reaches u32::MAX.
C14_BelowMax ==
    (BelowMax /\ AllPlayable) =>
        /\ <>(main_pc = "done" /\ AllReturned)
        /\ []FinalReadAfterWorkers

\* ---------------------------------------------------------------------------
\* The order of the field reads of run_game

\* The positions of the calls of the exports ops among the calls cs.
Positions(cs, ops) == {i \in 1..Len(cs) : cs[i] \in ops}

ReasonReads == {"result_get_reason_len", "result_get_reason_byte"}
CountReads == {"result_get_ticks", "result_get_cycles"}

\* C15: the winner code is the first field read of a game, and the other
\* fields (ticks, cycles, reason length, reason bytes) are read after it and
\* only if it is 0, 1 or 2.
C15_WinnerReadFirst ==
    \A w \in Workers :
        calls[w] # <<>> =>
            /\ \A i \in Positions(calls[w], FieldReads \ {"result_get_winner"}) :
               \E j \in Positions(calls[w], {"result_get_winner"}) : j < i
            /\ winner_value[w] \notin {0, 1, 2}
                   => Positions(calls[w], ReasonReads \cup CountReads) = {}

\* What run_game does instead: the reason length and the reason bytes are the
\* first fields read, whatever the winner code is; the winner code is read
\* next, once; ticks and cycles are read after it and only if it is 0, 1 or 2.
ReasonReadFirst ==
    \A w \in Workers :
        calls[w] # <<>> =>
            LET winner_reads == Positions(calls[w], {"result_get_winner"})
            IN  /\ Cardinality(winner_reads) = 1
                /\ calls[w][2] = "result_get_reason_len"
                /\ Positions(calls[w], {"result_get_reason_len"}) = {2}
                /\ \A i \in Positions(calls[w], ReasonReads) :
                   \A j \in winner_reads : i < j
                /\ \A i \in Positions(calls[w], CountReads) :
                   \A j \in winner_reads : j < i
                /\ winner_value[w] \notin {0, 1, 2}
                       => /\ Positions(calls[w], CountReads) = {}
                          /\ calls[w][Len(calls[w])] = "result_get_winner"
                /\ winner_value[w] \in {0, 1, 2}
                       => \A op \in CountReads : Count(calls[w], op) = 1

\* ---------------------------------------------------------------------------
\* What one record step changes

\* The (winner, reason) keys of a lose_reasons map.
KeysOf(lose_reasons) ==
    UNION {{<<x, r>> : r \in DOMAIN lose_reasons[x]} : x \in DOMAIN lose_reasons}

\* The entry of key e once a result of key k and seed s is recorded on
\* lose_reasons: counts are u32 and go round with wrapping arithmetic.
EntryAfter(lose_reasons, e, k, s) ==
    LET old == ExamplesOf(lose_reasons, e[1], e[2])
    IN  IF e # k THEN old
        ELSE IF k \notin KeysOf(lose_reasons) THEN <<1, <<s>>>>
        ELSE <<WrappingAdd(old[1], 1),
               IF Len(old[2]) < 5 THEN Append(old[2], s) ELSE old[2]>>

\* Worker w completes its record block in this step.
Records(w) == InRecord(w) /\ pc'[w] = "claim_lock"

\* The step records worker w's result: one more win of its winner, its entry
\* updated, nothing else touched.
RecordFrame(w) ==
    LET k == <<result[w].winner, result[w].lose_reason>>
    IN  /\ state'.seed = state.seed
        /\ claimed' = claimed
        /\ DOMAIN state'.wins = DOMAIN state.wins \cup {k[1]}
        /\ \A x \in DOMAIN state'.wins :
               state'.wins[x] = IF x = k[1]
                                THEN WrappingAdd(WinsOf(state.wins, x), 1)
                                ELSE state.wins[x]
        /\ KeysOf(state'.lose_reasons) = KeysOf(state.lose_reasons) \cup {k}
        /\ \A e \in KeysOf(state'.lose_reasons) :
               ExamplesOf(state'.lose_reasons, e[1], e[2])
                   = EntryAfter(state.lose_reasons, e, k, seed[w])

\* xs is the beginning of ys.
IsPrefix(xs, ys) == Len(xs) <= Len(ys) /\ \A i \in 1..Len(xs) : xs[i] = ys[i]

\* Every entry stays, its list keeps what it holds in the order it holds it,
\* and a list of 5 seeds stays as it is.
ListsOnlyGrow ==
    \A e \in KeysOf(state.lose_reasons) :
        LET old == ExamplesOf(state.lose_reasons, e[1], e[2])[2]
            new == ExamplesOf(state'.lose_reasons, e[1], e[2])[2]
        IN  /\ e \in KeysOf(state'.lose_reasons)
            /\ IsPrefix(old, new)
            /\ Len(old) = 5 => new = old

\* C16: a record step adds one (as a u32) to the winner's wins and updates
\* the entry of (winner, reason) only: (1, [seed]) on the first occurrence,
\* afterwards the count plus one (as a u32) and the seed appended while the
\* list is shorter than 5; all other wins, entries, lists and the cursor stay
\* as they are; no other step changes wins or lose_reasons; and no step
\* removes, replaces or reorders what a list holds, or changes a list of 5.
C16_RecordFrame ==
    [][/\ IF \E w \in Workers : Records(w)
          THEN \A w \in Workers : Records(w) => RecordFrame(w)
          ELSE state'.wins = state.wins /\ state'.lose_reasons = state.lose_reasons
       /\ ListsOnlyGrow]_vars

\* Results are on record on two entries, and a count has gone round: it is
\* below the number of seeds its list holds.
C16_Witness ==
    /\ Cardinality(Entries) = 2
    /\ \E e \in Entries :
           ExamplesOf(state.lose_reasons, e[1], e[2])[1]
               < Len(ExamplesOf(state.lose_reasons, e[1], e[2])[2])

\* ---------------------------------------------------------------------------
\* Allocation and the arguments of the games

\* Worker w has constructed its runtime.
Constructed(w) == pc[w] \notin {"unspawned", "new"}

\* The two buffers of a runtime: in linear memory as written at construction,
\* one per competitor, each described by its (ptr, len) fields.
BuffersWritten(w) ==
    /\ allocs[w] = 2
    /\ writes[w] = 2
    /\ memory[w] = {<<runtime[w].red_ptr, RED_WASM>>, <<runtime[w].blue_ptr, BLUE_WASM>>}
    /\ runtime[w].red_len = Len(RED_WASM)
    /\ runtime[w].blue_len = Len(BLUE_WASM)
    /\ runtime[w].red_ptr + runtime[w].red_len <= runtime[w].blue_ptr

\* The state part of C17.
OneSetupPerRuntime ==
    \A w \in Workers :
        /\ ~Constructed(w) => (allocs[w] = 0 /\ writes[w] = 0 /\ runtime[w] = NoRuntime)
        /\ Constructed(w) => BuffersWritten(w)
        /\ Positions(calls[w], {"allocate_bytes", "write"}) = {}
        /\ invoke[w] # <<>> =>
               invoke[w] = <<runtime[w].red_ptr, Len(RED_WASM),
                             runtime[w].blue_ptr, Len(BLUE_WASM), AsI32(seed[w])>>

\* The step part of C17: a runtime once constructed keeps its descriptors and
\* its memory, and a worker constructs only once.
SetupNeverRepeated ==
    \A w \in Workers :
        Constructed(w) =>
            /\ Constructed(w)'
            /\ runtime'[w] = runtime[w]
            /\ memory'[w] = memory[w]
            /\ allocs'[w] = allocs[w]
            /\ writes'[w] = writes[w]

\* C17: each runtime allocates and writes its two buffers exactly once, when
\* it is constructed and before its first game; run_game neither allocates nor
\* writes; every game of a runtime is passed the same two (ptr, len)
\* descriptors, only the seed varying; each worker constructs one runtime, its
\* own.
C17_SetupOnce == []OneSetupPerRuntime /\ [][SetupNeverRepeated]_vars

\* A game has returned, played after earlier results were recorded, on a seed
\* that is negative as an i32.
C17_Witness ==
    \E w \in Workers :
        /\ pc[w] = "record_lock"
        /\ recorded # EmptyMap
        /\ invoke[w][5] < 0
        /\ allocs[w] = 2

\* ---------------------------------------------------------------------------
\* The aggregate's sums

RECURSIVE SumOver(_, _)
\* The sum of f[x] over the x of set S.
SumOver(f, S) ==
    IF S = {} THEN 0
    ELSE LET x == CHOOSE y \in S : TRUE
         IN  f[x] + SumOver(f, S \ {x})

\* The counts of the reasons recorded for winner x, summed.
ReasonCounts(x) ==
    IF x \in DOMAIN state.lose_reasons
    THEN SumOver([r \in DOMAIN state.lose_reasons[x] |-> state.lose_reasons[x][r][1]],
                 DOMAIN state.lose_reasons[x])
    ELSE 0

Min(a, b) == IF a < b THEN a ELSE b

\* C18: in every reachable state the wins sum to the number of record steps
\* completed (compared while the history counts them), each winner's wins are
\* the sum of the counts of its reasons, and each entry's example list has
\* min(count, 5) seeds.
C18_AggregateSums ==
    /\ HistoryOpen => SumOver(state.wins, DOMAIN state.wins) = num_recorded
    /\ \A x \in Winner : WinsOf(state.wins, x) = ReasonCounts(x)
    /\ \A e \in Entries :
           Len(ExamplesOf(state.lose_reasons, e[1], e[2])[2])
               = Min(ExamplesOf(state.lose_reasons, e[1], e[2])[1], 5)

\* C18 holds on the runs whose cursor never reaches u32::MAX.
C18_BelowMax == BelowMax => C18_AggregateSums

\* ---------------------------------------------------------------------------
\* The arithmetic of the claim step

\* C19: when seed + games is a u32 (also when it is u32::MAX, also with no
\* games), no addition evaluated in the claim block leaves u32, and a worker
\* that finds the cursor at start_seed + games returns without claiming.
C19_ClaimNeverOverflows ==
    Representable =>
        \A w \in Workers :
            InClaim(w) =>
                /\ ~CheckedAddIsNone(state.seed, 1)
                /\ ~CheckedAddIsNone(args.games, args.seed)
                /\ state.seed = args.seed + args.games
                       => Exhausted(state.seed) /\ ~ClaimOverflows(state.seed)

\* C19 holds on the runs whose cursor never reaches u32::MAX.
C19_BelowMax == BelowMax => C19_ClaimNeverOverflows

\* ---------------------------------------------------------------------------
\* The cursor and the games it handed out

\* w holds a claimed seed whose result is not recorded yet.
InFlight(w) == pc[w] \in {"run_game", "record_lock", "record_cs"}

\* The workers holding seed s in flight.
Holders(s) == {w \in Workers : InFlight(w) /\ seed[w] = s}

\* The state part of C20.
CursorAccounts ==
    /\ args.seed <= state.seed
    /\ state.seed <= args.seed + args.games
    /\ state.seed - args.seed
           = num_recorded + Cardinality({w \in Workers : InFlight(w)})
    /\ \A s \in ClaimedSet :
           Cardinality(Holders(s)) + (IF s \in DOMAIN recorded THEN recorded[s] ELSE 0) = 1
    /\ DOMAIN recorded \subseteq ClaimedSet
    /\ \A e \in Entries :
           SeedsOf(ExamplesOf(state.lose_reasons, e[1], e[2])[2]) \subseteq DOMAIN recorded

\* The step part of C20: the cursor does not decrease, a claim attempt that
\* finds the range exhausted changes neither cursor nor aggregate, and a
\* record step offers the seed its worker claimed.
CursorSteps ==
    /\ state'.seed >= state.seed
    /\ \A w \in Workers :
           /\ (InClaim(w) /\ pc'[w] = "returned") => state' = state
           /\ (InRecord(w) /\ pc'[w] = "claim_lock")
                  => /\ state' = Record(state, result[w], seed[w])
                     /\ recorded' = BagAdd(recorded, seed[w])

\* C20: with seed + games a u32 and every game returning an outcome, the
\* cursor never decreases and stays within [start, start + G]; the cursor
\* minus start is the number of games recorded plus the number in flight, at
\* most one per worker; a claim attempt on an exhausted range changes nothing;
\* and every claimed seed is recorded exactly once, with that seed offered as
\* the example.
C20_CursorAccounting ==
    /\ [](Representable /\ AllPlayable => CursorAccounts)
    /\ [][Representable /\ AllPlayable => CursorSteps]_vars

\* C20 holds on the runs whose cursor never reaches u32::MAX.
C20_BelowMax ==
    /\ [](BelowMax /\ AllPlayable => CursorAccounts)
    /\ [][BelowMax /\ AllPlayable => CursorSteps]_vars

====
